---- MODULE Spec2Model ----
(***************************************************************************)
(* Model of django_mass_update: the two updater strategies                 *)
(* (FormSetMassUpdate, FastMassUpdate) in mass_update/utils/updaters.py    *)
(* and mass_update/helpers.py, the field list offered by                   *)
(* MassUpdateBase.model_fields_names in mass_update/utils/base.py, and     *)
(* process_change, get_view and the session handoff of                     *)
(* mass_update/mass_update.py.                                             *)
(*                                                                         *)
(* One behaviour is one of: a call of edit_all_values of one updater on a  *)
(* database of NumRecords records, followed by process_change's answer and *)
(* a get_view; an evaluation of model_fields_names on a model schema; or   *)
(* up to two stores of an id list in the session followed by the read.     *)
(***************************************************************************)
EXTENDS Integers, Sequences, FiniteSets, TLC

VARIABLES
    pc,               \* position of the call: "idle", "safe_loop", "fast_start", "fast_loop", "done", "listed"
    updater,          \* "safe" | "fast_utils" | "fast_helpers"
    object_ids,       \* the ordered id list of the call
    fields_to_update, \* the ordered field selection of the call
    data,             \* field_dict: selected field -> submitted raw value
    batch,            \* settings.BATCH_SIZE of this run
    db,               \* the database: record id -> row
    pre,              \* the database when the call started
    snap,             \* the database when transaction.atomic() was entered
    todo,             \* safe updater: records the for loop has still to visit
    formsets,         \* safe updater: the local list `formsets`
    i,                \* fast updater: the chunk offset `i`
    obj,              \* fast updater: the local `obj`
    scalar_data,      \* fast updater: `data` after the split
    m2m_data,         \* fast updater: `m2m_data`
    m2m_fields,       \* fast updater: `m2m_fields`
    events,           \* history of the operations the call performed
    ret,              \* what the call returned
    meta,             \* schema metadata given to model_fields_names
    offered,          \* the names model_fields_names yielded
    chunks,           \* fast updater: the slices object_ids[i : i + BATCH_SIZE] taken so far
    response,         \* what MassUpdate.process_change did with the updater's result
    initial,          \* model_form.initial as MassUpdate.get_view filled it
    session,          \* request.session: key -> stored string
    hash_id,          \* the key set_session returned last
    stored,           \* the id list handed to get_mass_update_url last
    before,           \* session, key and id list of the store before the last one
    parsed            \* object_ids as mass_update_change_view parsed them

vars == << pc, updater, object_ids, fields_to_update, data, batch, db, pre, snap,
           todo, formsets, i, obj, scalar_data, m2m_data, m2m_fields, events,
           ret, meta, offered, chunks, response, initial, session, hash_id,
           stored, before, parsed >>

viewVars == << response, initial >>
sessVars == << session, hash_id, stored, before, parsed >>

----------------------------------------------------------------------------
(* Bounds *)

NumRecords == 3
MaxBatch == 2
MaxFields == 2
MaxSessionLen == 2
HashBuckets == 4

----------------------------------------------------------------------------
(* The record type and the submitted values *)

Ids == 1..NumRecords
ScalarFields == {"name", "note"}
M2MFields == {"tags"}
ModelFields == ScalarFields \cup M2MFields
Inlines == << "items", "parts" >>

Invalid == << "i", "n", "v", "a", "l", "i", "d" >>
RawValues == { << "X" >>, << "a", " " >> \o Invalid }
RelatedIds == 1..3
TagSets == { {}, {2}, {2, 3} }

InitRow(r) ==
    [name |-> << "o" >>, note |-> << "o" >>, tags |-> {1}, inl |-> {}, log |-> 0]

Range(s) == { s[k] : k \in 1..Len(s) }

\* Python's  sub in s  on strings
Contains(s, sub) ==
    \E k \in 1..(Len(s) - Len(sub) + 1) : SubSeq(s, k, k + Len(sub) - 1) = sub

\* all orderings of the elements of S
RECURSIVE Perms(_)
Perms(S) ==
    IF S = {} THEN { << >> }
    ELSE UNION { { << x >> \o p : p \in Perms(S \ {x}) } : x \in S }

DistinctSeqs(S) == UNION { Perms(T) : T \in (SUBSET S) \ { {} } }

\* a queryset iterates in primary-key order
RECURSIVE SortedSeq(_)
SortedSeq(S) ==
    IF S = {} THEN << >>
    ELSE LET m == CHOOSE x \in S : \A y \in S : x <= y
         IN << m >> \o SortedSeq(S \ {m})

RECURSIVE SelectSeq2(_, _)
SelectSeq2(s, S) ==
    IF s = << >> THEN << >>
    ELSE (IF Head(s) \in S THEN << Head(s) >> ELSE << >>) \o SelectSeq2(Tail(s), S)

Ev(op, rec, arg) == [op |-> op, rec |-> rec, arg |-> arg]

NoRet == [kind |-> "none", val |-> << >>]
VALID == [kind |-> "VALID", val |-> << >>]
ErrTuple(a, b, c, d) == [kind |-> "tuple", val |-> << a, b, c, d >>]

----------------------------------------------------------------------------
(* transaction.atomic() *)

RollbackKeepsWrites(s, cur) == cur

\* leaving the atomic block by an exception restores the state at its entry
Rollback(s, cur) == s

Init ==
    /\ pc = "idle"
    /\ updater = "none"
    /\ object_ids = << >>
    /\ fields_to_update = << >>
    /\ data = << >>
    /\ batch = 1
    /\ db = [r \in Ids |-> InitRow(r)]
    /\ pre = [r \in Ids |-> InitRow(r)]
    /\ snap = [r \in Ids |-> InitRow(r)]
    /\ todo = << >>
    /\ formsets = << >>
    /\ i = 0
    /\ obj = 0
    /\ scalar_data = << >>
    /\ m2m_data = << >>
    /\ m2m_fields = << >>
    /\ events = << >>
    /\ ret = NoRet
    /\ meta = << >>
    /\ offered = << >>
    /\ chunks = << >>
    /\ response = [kind |-> "none", error |-> "None"]
    /\ initial = << >>
    /\ session = << >>
    /\ hash_id = << >>
    /\ stored = << >>
    /\ before = [session |-> << >>, hash_id |-> << >>, stored |-> << >>]
    /\ parsed = << >>

----------------------------------------------------------------------------
(* MassUpdateBase.model_fields_names *)

AttrValues == { "True", "False", "absent" }
FieldMetas == [unique : AttrValues, editable : AttrValues]
Schemas == UNION { [1..n -> FieldMetas] : n \in 1..MaxFields }

\* getattr(field, attr, default)
GetAttr(v, default) == IF v = "absent" THEN default ELSE v = "True"

SkipsUniqueOrNotEditable(f) ==
    GetAttr(f.unique, TRUE) \/ ~ GetAttr(f.editable, FALSE)

\* the condition under which the generator skips a field
Skips(f) == GetAttr(f.unique, TRUE) /\ ~ GetAttr(f.editable, FALSE)

\* the yielded names in order; a field is named by its position in the schema
RECURSIVE YieldFrom(_, _)
YieldFrom(m, k) ==
    IF k > Len(m) THEN << >>
    ELSE (IF Skips(m[k]) THEN << >> ELSE << k >>) \o YieldFrom(m, k + 1)

model_fields_names(m) == YieldFrom(m, 1)

\* get_base_context: "field_names" is what the selection view offers
FieldSelectionView ==
    /\ pc = "idle"
    /\ \E m \in Schemas :
          /\ meta' = m
          /\ offered' = model_fields_names(m)
    /\ pc' = "listed"
    /\ UNCHANGED << updater, object_ids, fields_to_update, data, batch, db, pre,
                    snap, todo, formsets, i, obj, scalar_data, m2m_data,
                    m2m_fields, events, ret >>
    /\ UNCHANGED << chunks, viewVars, sessVars >>

----------------------------------------------------------------------------
(* The call of edit_all_values and its arguments *)

Updaters == { "safe", "fast_utils", "fast_helpers" }
NoneStr == << "N", "o", "n", "e" >>

Selections(u) ==
    IF u = "safe"
    THEN { p \o SelectSeq2(Inlines, P) :
             p \in UNION { Perms(T) : T \in SUBSET ModelFields },
             P \in SUBSET Range(Inlines) } \ { << >> }
    ELSE DistinctSeqs(ModelFields)

\* field_dict[field] = request.POST.get(field), for the selected fields
FieldDict(sel, sv, tv) ==
    [x \in Range(sel) |->
        IF x \in ScalarFields THEN sv[x]
        ELSE IF x \in M2MFields THEN tv[x]
        ELSE NoneStr]

StartCall ==
    /\ pc = "idle"
    /\ \E u \in Updaters, ids \in DistinctSeqs(Ids), b \in 1..MaxBatch :
        \E sel \in Selections(u) :
         \E sv \in [ScalarFields \cap Range(sel) -> RawValues],
            tv \in [M2MFields \cap Range(sel) -> TagSets] :
          /\ (u = "safe") => (b = 1)
          /\ updater' = u
          /\ object_ids' = ids
          /\ fields_to_update' = sel
          /\ data' = FieldDict(sel, sv, tv)
          /\ batch' = b
          /\ pc' = IF u = "safe" THEN "safe_loop" ELSE "fast_start"
          \* objects = queryset.filter(pk__in=object_ids), entered under atomic()
          /\ todo' = IF u = "safe" THEN SortedSeq(Range(ids)) ELSE << >>
    /\ pre' = db
    /\ snap' = db
    /\ UNCHANGED << db, formsets, i, obj, scalar_data, m2m_data, m2m_fields,
                    events, ret, meta, offered >>
    /\ UNCHANGED << chunks, viewVars, sessVars >>

----------------------------------------------------------------------------
(* FormSetMassUpdate.edit_all_values: one iteration of  for obj in objects  *)

\* form.fields restricted to fields_to_update: the model fields the form binds
FormFields(sel) == Range(sel) \cap ModelFields

\* new_object = form.instance if form.is_valid() else obj
NewObject(rec, formOk) == [id |-> rec, fromForm |-> formOk]

BuildFormsetsSkipsInvalid(new_object, sel, fsOk) ==
    IF new_object.fromForm
    THEN LET pf == SelectSeq2(Inlines, Range(sel))
         IN [k \in 1..Len(pf) |->
                [inst |-> new_object.id, fromForm |-> new_object.fromForm,
                 prefix |-> pf[k], valid |-> fsOk[pf[k]]]]
    ELSE << >>

\* one formset per inline whose default prefix is in fields_to_update,
\* bound to new_object; fsOk is what each formset's validation will say
BuildFormsets(new_object, sel, fsOk) ==
    LET pf == SelectSeq2(Inlines, Range(sel))
    IN [k \in 1..Len(pf) |->
           [inst |-> new_object.id, fromForm |-> new_object.fromForm,
            prefix |-> pf[k], valid |-> fsOk[pf[k]]]]

\* django.forms.formsets.all_valid
all_valid(fs) == \A k \in 1..Len(fs) : fs[k].valid

\* save_model and form.save_m2m write the form's fields of the row
SaveRow(row, sel, d) ==
    [f \in DOMAIN row |-> IF f \in FormFields(sel) THEN d[f] ELSE row[f]]

\* save_formset for every formset of the list writes its instance's children
SaveFormsets(d, fs) ==
    [r \in Ids |->
        [d[r] EXCEPT !.inl = @ \cup { fs[k].prefix : k \in { n \in 1..Len(fs) : fs[n].inst = r } }]]

SafeSaved(d, rec, sel, dat, fs) ==
    LET d1 == [d EXCEPT ![rec] = SaveRow(d[rec], sel, dat)]
        d2 == SaveFormsets(d1, fs)
    IN [d2 EXCEPT ![rec].log = @ + 1]

BuildEvents(fs, from) ==
    [k \in 1..(Len(fs) - from) |-> Ev("build_formset", fs[from + k].inst, fs[from + k].prefix)]

SaveEvents(rec, fs) ==
    << Ev("save_model", rec, ""), Ev("save_m2m", rec, "") >>
    \o [k \in 1..Len(fs) |-> Ev("save_formset", fs[k].inst, fs[k].prefix)]
    \o << Ev("log_change", rec, "") >>

SafeRecord ==
    /\ pc = "safe_loop"
    /\ todo # << >>
    /\ \E formOk \in BOOLEAN, dbOk \in BOOLEAN :
        \E fsOk \in [Range(Inlines) \cap Range(fields_to_update) -> BOOLEAN] :
          LET rec == Head(todo)
              new_object == NewObject(rec, formOk)
              fs == formsets \o BuildFormsets(new_object, fields_to_update, fsOk)
              ok == all_valid(fs) /\ formOk
              ev0 == events
                     \o << Ev("is_valid", rec, IF formOk THEN "ok" ELSE "bad") >>
                     \o (IF formOk THEN << Ev("save_form", rec, "") >> ELSE << >>)
                     \o BuildEvents(fs, Len(formsets))
          IN /\ formsets' = fs
             /\ IF ok /\ dbOk
                THEN /\ db' = SafeSaved(db, rec, fields_to_update, data, fs)
                     /\ events' = ev0 \o SaveEvents(rec, fs)
                     /\ todo' = Tail(todo)
                     /\ UNCHANGED << pc, ret >>
                ELSE IF ok
                THEN \* an exception of the persistence layer inside save_model
                     /\ db' = Rollback(snap, db)
                     /\ events' = ev0 \o << Ev("raise", rec, "DatabaseError") >>
                     /\ ret' = ErrTuple(fs, "None", "None", "DatabaseError")
                     /\ pc' = "done"
                     /\ UNCHANGED todo
                ELSE /\ dbOk
                     /\ db' = Rollback(snap, db)
                     /\ events' = ev0 \o << Ev("raise", rec, "ValidationError") >>
                     /\ ret' = ErrTuple(fs, "form.errors", "AdminErrorList", "ValidationError")
                     /\ pc' = "done"
                     /\ UNCHANGED todo
    /\ UNCHANGED << updater, object_ids, fields_to_update, data, batch, pre, snap,
                    i, obj, scalar_data, m2m_data, m2m_fields, meta, offered >>
    /\ UNCHANGED << chunks, viewVars, sessVars >>

\* the loop is over: return VALID, the atomic block commits
SafeReturn ==
    /\ pc = "safe_loop"
    /\ todo = << >>
    /\ ret' = VALID
    /\ pc' = "done"
    /\ UNCHANGED << updater, object_ids, fields_to_update, data, batch, db, pre,
                    snap, todo, formsets, i, obj, scalar_data, m2m_data,
                    m2m_fields, events, meta, offered >>
    /\ UNCHANGED << chunks, viewVars, sessVars >>

----------------------------------------------------------------------------
(* FastMassUpdate: validate_form, the split of the payload, the chunk loop *)

RepresentativeIsLast(ids) == ids[Len(ids)]

\* object_id = object_ids[0]
Representative(ids) == ids[1]

\* str(data[field]); the posted key of a relation holds no text
StrOf(f, d) == IF f \in M2MFields THEN << "p", "k" >> ELSE d[f]

ScanFirstOnly(sel, d) == Contains(StrOf(sel[1], d), Invalid)

\* for field in fields_to_update: if "invalid" in str(data[field]): is_valid = False
ScanInvalid(sel, d) == \E k \in 1..Len(sel) : Contains(StrOf(sel[k], d), Invalid)

\* form.cleaned_data of a valid form: the posted values of the form's fields
cleaned_data(sel, d) == [f \in FormFields(sel) |-> d[f]]

\* the loop that moves ManyToManyField entries to m2m_data and the rest to data
Partition(dat) ==
    [scalar |-> [f \in (DOMAIN dat) \ M2MFields |-> dat[f]],
     m2m |-> [f \in (DOMAIN dat) \cap M2MFields |-> dat[f]]]

\* utils/updaters.py get_data: the parameter `data` is rebound to {} before
\* the loop reads it
get_data(dat) ==
    LET rebound == [f \in {} |-> << >>]
    IN Partition(rebound)

\* fields whose attribute on obj has a  set  method
DiscoverM2M(sel) == SelectSeq2(sel, M2MFields)

Min(a, b) == IF a <= b THEN a ELSE b

\* object_ids[i : i + BATCH_SIZE]
Chunk(ids, k, K) == SubSeq(ids, k + 1, Min(k + K, Len(ids)))

NextOffsetSkips(k, K) == k + K + 1

NextOffsetOverlaps(k, K) == IF K > 1 THEN k + K - 1 ELSE k + K

\* i += settings.BATCH_SIZE
NextOffset(k, K) == k + K

ChunkSnapshotCommits(s, d) == d

\* the atomic block encloses the whole while loop: the rollback point of a
\* later chunk is still the entry of the loop
ChunkSnapshot(s, d) == s

ApplyUpdateUnfiltered(d, S, sd) ==
    [r \in Ids |->
        [f \in DOMAIN d[r] |-> IF f \in DOMAIN sd THEN sd[f] ELSE d[r][f]]]

\* transaction_objects.update(**data)
ApplyUpdate(d, S, sd) ==
    [r \in Ids |->
        IF r \in S
        THEN [f \in DOMAIN d[r] |-> IF f \in DOMAIN sd THEN sd[f] ELSE d[r][f]]
        ELSE d[r]]

\* getattr(obj, field).set(m2m_data[field]) for every record of S and field of mf
SetRelations(d, S, mf, md) ==
    [r \in Ids |->
        IF r \in S
        THEN [f \in DOMAIN d[r] |-> IF f \in Range(mf) THEN md[f] ELSE d[r][f]]
        ELSE d[r]]

RECURSIVE FieldLoopEvents(_, _)
FieldLoopEvents(r, mf) ==
    IF mf = << >> THEN << >>
    ELSE << Ev("set", r, Head(mf)), Ev("save", r, Head(mf)) >>
         \o FieldLoopEvents(r, Tail(mf))

RECURSIVE LoopEvents(_, _)
LoopEvents(recs, mf) ==
    IF recs = << >> THEN << >>
    ELSE FieldLoopEvents(Head(recs), mf) \o LoopEvents(Tail(recs), mf)

FastTuple(exc) == ErrTuple(<< >>, "None", exc, "None")

\* edit_all_values up to the entry of the atomic block
FastValidate ==
    /\ pc = "fast_start"
    /\ \E formOk \in BOOLEAN :
        LET rep == Representative(object_ids)
            bad == ScanInvalid(fields_to_update, data)
            cd == cleaned_data(fields_to_update, data)
            split == IF updater = "fast_utils" THEN get_data(cd) ELSE Partition(cd)
        IN /\ obj' = rep
           /\ IF formOk /\ ~ bad
              THEN /\ events' = Append(events, Ev("validate_form", rep, "ok"))
                   /\ scalar_data' = split.scalar
                   /\ m2m_data' = split.m2m
                   /\ m2m_fields' = DiscoverM2M(fields_to_update)
                   /\ i' = 0
                   /\ snap' = db
                   /\ pc' = "fast_loop"
                   /\ UNCHANGED ret
              ELSE /\ events' = events
                        \o << Ev("validate_form", rep, IF formOk THEN "sentinel" ELSE "bad"),
                              Ev("raise", rep, "ValidationError") >>
                   /\ ret' = FastTuple("ValidationError")
                   /\ pc' = "done"
                   /\ UNCHANGED << scalar_data, m2m_data, m2m_fields, i, snap >>
    /\ UNCHANGED << updater, object_ids, fields_to_update, data, batch, db, pre,
                    todo, formsets, meta, offered >>
    /\ UNCHANGED << chunks, viewVars, sessVars >>

\* one iteration of  while i < len(object_ids)
FastChunk ==
    /\ pc = "fast_loop"
    /\ i < Len(object_ids)
    /\ \E fail \in { "none", "update", "set" } :
        LET S == Range(Chunk(object_ids, i, batch))
            recs == SortedSeq(S)
            last == fields_to_update[Len(fields_to_update)]
            stray == updater = "fast_helpers"
            d1 == ApplyUpdate(db, S, scalar_data)
            d2 == IF stray /\ last \in DOMAIN m2m_data
                  THEN SetRelations(d1, {obj}, << last >>, m2m_data)
                  ELSE d1
            ev1 == Append(events, Ev("update", i, ""))
            ev2 == IF stray THEN Append(ev1, Ev("set", obj, last)) ELSE ev1
            missing == \E k \in 1..Len(m2m_fields) : m2m_fields[k] \notin DOMAIN m2m_data
            exc == IF fail = "update" THEN "DatabaseError"
                   ELSE IF stray /\ last \notin M2MFields THEN "AttributeError"
                   ELSE IF stray /\ last \notin DOMAIN m2m_data THEN "KeyError"
                   ELSE IF m2m_fields # << >> /\ missing THEN "KeyError"
                   ELSE IF fail = "set" THEN "DatabaseError"
                   ELSE "none"
        IN /\ (fail = "set") => (m2m_fields # << >> /\ exc = "DatabaseError")
           /\ IF exc = "none"
              THEN /\ db' = IF m2m_fields # << >>
                            THEN SetRelations(d2, S, m2m_fields, m2m_data)
                            ELSE d2
                   /\ events' = IF m2m_fields # << >>
                                THEN ev2 \o LoopEvents(recs, m2m_fields)
                                ELSE ev2
                   /\ obj' = IF m2m_fields # << >> THEN recs[Len(recs)] ELSE obj
                   /\ i' = NextOffset(i, batch)
                   /\ snap' = ChunkSnapshot(snap, db')
                   /\ UNCHANGED << pc, ret >>
              ELSE /\ db' = Rollback(snap, IF exc = "DatabaseError" /\ fail = "update" THEN db
                                           ELSE IF exc = "AttributeError" THEN d1
                                           ELSE d2)
                   /\ events' = (IF fail = "update" THEN ev1
                                 ELSE IF exc = "DatabaseError" THEN Append(ev2, Ev("set", recs[1], m2m_fields[1]))
                                 ELSE ev2)
                                \o << Ev("raise", i, exc) >>
                   /\ ret' = FastTuple(exc)
                   /\ pc' = "done"
                   /\ UNCHANGED << obj, i, snap >>
    /\ UNCHANGED << updater, object_ids, fields_to_update, data, batch, pre, todo,
                    formsets, scalar_data, m2m_data, m2m_fields, meta, offered >>
    /\ chunks' = Append(chunks, Chunk(object_ids, i, batch))
    /\ UNCHANGED << viewVars, sessVars >>

\* the loop is over: the atomic block commits, return VALID
FastReturn ==
    /\ pc = "fast_loop"
    /\ i >= Len(object_ids)
    /\ ret' = VALID
    /\ pc' = "done"
    /\ UNCHANGED << updater, object_ids, fields_to_update, data, batch, db, pre,
                    snap, todo, formsets, i, obj, scalar_data, m2m_data,
                    m2m_fields, events, meta, offered >>
    /\ UNCHANGED << chunks, viewVars, sessVars >>

----------------------------------------------------------------------------
(* MassUpdate.process_change and MassUpdate.get_view (mass_update.py) *)

Response(kind, error) == [kind |-> kind, error |-> error]

\* mass_update.py takes its updaters from helpers.py
ViewUpdaters == { "safe", "fast_helpers" }

\* process_change after edit_all_values has returned `ret`
ProcessChange ==
    /\ pc = "done"
    /\ updater \in ViewUpdaters
    /\ response.kind = "none"
    /\ IF ret.kind = "VALID"
       THEN \* message_user(...); return HttpResponseRedirect(redirect_url)
            response' = Response("redirect", "None")
       ELSE \* raise self.get_view(self, result[2]): the bound method is given
            \* two positional arguments and takes one, so the call raises
            response' = Response("raised", "TypeError")
    /\ UNCHANGED << pc, updater, object_ids, fields_to_update, data, batch, db,
                    pre, snap, todo, formsets, i, obj, scalar_data, m2m_data,
                    m2m_fields, events, ret, meta, offered, chunks, initial,
                    sessVars >>

\* the rows qs.values(f) yields for one record and a relation f: one row per
\* related key (a single empty row when it has none)
JoinRows(v) == IF v = {} THEN { {} } ELSE { {x} : x \in v }

\* first_object_values = qs.values(*fields_to_update)[0], given the row picked
\* for each relation
FirstObjectValues(row, sel, pick) ==
    [f \in Range(sel) |-> IF f \in M2MFields THEN pick[f] ELSE row[f]]

\* get_view for the same id list and selection, after the redirect:
\* model_form.initial[field] = first_object_values[field]
GetView ==
    /\ pc = "done"
    /\ response.kind = "redirect"
    /\ Range(fields_to_update) \subseteq ModelFields
    /\ LET row == db[object_ids[1]]
           rel == Range(fields_to_update) \cap M2MFields
       IN \E pick \in { q \in [rel -> SUBSET RelatedIds] :
                          \A f \in rel : q[f] \in JoinRows(row[f]) } :
             initial' = FirstObjectValues(row, fields_to_update, pick)
    /\ response' = Response("view", "None")
    /\ UNCHANGED << pc, updater, object_ids, fields_to_update, data, batch, db,
                    pre, snap, todo, formsets, i, obj, scalar_data, m2m_data,
                    m2m_fields, events, ret, meta, offered, chunks, sessVars >>

----------------------------------------------------------------------------
(* Session handoff: stringify, set_session, and the parse in              *)
(* mass_update_change_view (mass_update.py)                                *)

SessionIdPool == { -1, 1, 2, 12 }
SessionLists == UNION { [1..n -> SessionIdPool] : n \in 1..MaxSessionLen }

DigitChars == << "0", "1", "2", "3", "4", "5", "6", "7", "8", "9" >>

RECURSIVE NatStr(_)
NatStr(n) ==
    IF n < 10 THEN << DigitChars[n + 1] >>
    ELSE NatStr(n \div 10) \o << DigitChars[(n % 10) + 1] >>

\* str(s) of an integer
IntStr(n) == IF n < 0 THEN << "-" >> \o NatStr(0 - n) ELSE NatStr(n)

\* ",".join(str(s) for s in obj)
RECURSIVE stringify(_)
stringify(pks) ==
    IF Len(pks) = 1 THEN IntStr(pks[1])
    ELSE IntStr(pks[1]) \o << "," >> \o stringify(Tail(pks))

\* s.split(","): the pieces between the separators
RECURSIVE SplitFrom(_, _, _)
SplitFrom(s, k, cur) ==
    IF k > Len(s) THEN << cur >>
    ELSE IF s[k] = "," THEN << cur >> \o SplitFrom(s, k + 1, << >>)
    ELSE SplitFrom(s, k + 1, Append(cur, s[k]))

Split(s) == SplitFrom(s, 1, << >>)

DigitVal(c) == (CHOOSE d \in 1..10 : DigitChars[d] = c) - 1

RECURSIVE NatVal(_)
NatVal(t) ==
    IF t = << >> THEN 0
    ELSE NatVal(SubSeq(t, 1, Len(t) - 1)) * 10 + DigitVal(t[Len(t)])

\* int(x) of a decimal literal
IntVal(t) == IF t[1] = "-" THEN 0 - NatVal(Tail(t)) ELSE NatVal(t)

ParseIdsUnordered(str) ==
    LET parts == Split(str)
    IN SortedSeq({ IntVal(parts[k]) : k \in 1..Len(parts) })

\* [int(x) for x in object_ids.split(",")]
ParseIds(str) ==
    LET parts == Split(str)
    IN [k \in 1..Len(parts) |-> IntVal(parts[k])]

CharCode(c) ==
    IF c = "," THEN 10 ELSE IF c = "-" THEN 11 ELSE DigitVal(c)

RECURSIVE Digest(_)
\* hashlib.md5(...).hexdigest(): a function of the text alone; the digest
\* space is kept small so that different texts can share a digest
Digest(t) ==
    IF t = << >> THEN 0
    ELSE (Digest(Tail(t)) * 3 + CharCode(Head(t))) % HashBuckets

\* "session-%s" % hash_id
SessionKey(object) == << "session-", Digest(object) >>

\* session[hash_id] = object
SessionPut(sess, k, object) ==
    [x \in (DOMAIN sess) \cup { k } |-> IF x = k THEN object ELSE sess[x]]

\* get_mass_update_url: object_ids = stringify(pks); set_session(session, object_ids)
SessionStore ==
    /\ pc \in { "idle", "stored" }
    /\ \E pks \in SessionLists :
         LET object == stringify(pks)
             k == SessionKey(object)
         IN /\ session' = SessionPut(session, k, object)
            /\ hash_id' = k
            /\ stored' = pks
    /\ before' = [session |-> session, hash_id |-> hash_id, stored |-> stored]
    /\ pc' = IF pc = "idle" THEN "stored" ELSE "stored_again"
    /\ UNCHANGED << updater, object_ids, fields_to_update, data, batch, db, pre,
                    snap, todo, formsets, i, obj, scalar_data, m2m_data,
                    m2m_fields, events, ret, meta, offered, chunks, viewVars,
                    parsed >>

\* mass_update_change_view: request.session.get(session_id), split and int
SessionRead ==
    /\ pc \in { "stored", "stored_again" }
    /\ parsed' = ParseIds(session[hash_id])
    /\ pc' = "parsed"
    /\ UNCHANGED << updater, object_ids, fields_to_update, data, batch, db, pre,
                    snap, todo, formsets, i, obj, scalar_data, m2m_data,
                    m2m_fields, events, ret, meta, offered, chunks, viewVars,
                    session, hash_id, stored, before >>

Next ==
    \/ FieldSelectionView
    \/ StartCall
    \/ SafeRecord
    \/ SafeReturn
    \/ FastValidate
    \/ FastChunk
    \/ FastReturn
    \/ ProcessChange
    \/ GetView
    \/ SessionStore
    \/ SessionRead

Spec == Init /\ [][Next]_vars

\* the call runs to its end: an enabled loop iteration or return is taken
FairSpec == Spec /\ WF_vars(FastChunk) /\ WF_vars(FastReturn)

----------------------------------------------------------------------------
(* Properties *)

IsFast == updater \in { "fast_utils", "fast_helpers" }
EvAt(op) == { k \in 1..Len(events) : events[k].op = op }
Listed == Range(object_ids)
Selected == Range(fields_to_update)

\* an exception was raised while a chunk was being applied
ChunkRaised ==
    \E k \in EvAt("raise") : events[k].arg # "ValidationError"
DbRaised ==
    \E k \in EvAt("raise") : events[k].arg = "DatabaseError"
ValidationPassed ==
    \E k \in EvAt("validate_form") : events[k].arg = "ok"

SomeInvalid ==
    \/ \E k \in EvAt("is_valid") : events[k].arg = "bad"
    \/ \E n \in 1..Len(formsets) : ~ formsets[n].valid

\* C1: safe updater: when the main form or a collected formset of some record
\* fails validation, the call returns an error tuple and every record is as it
\* was before the call, records saved earlier in the loop included.
C1_SafeAllOrNothing ==
    (pc = "done" /\ updater = "safe" /\ SomeInvalid)
        => (ret.kind = "tuple" /\ db = pre)

C1_Witness ==
    /\ pc = "done"
    /\ updater = "safe"
    /\ SomeInvalid
    /\ EvAt("save_model") # {}
    /\ EvAt("save_formset") # {}
    /\ db = pre

HasInvalidValue ==
    \E f \in Selected \cap ScalarFields : Contains(data[f], Invalid)

\* C2: fast updater: when the raw value of any selected field contains
\* "invalid", the call returns an error tuple, issues no update and no
\* relation replacement, and leaves every record unchanged, also when the
\* representative form validates.
C2_SentinelRejectsBatch ==
    (pc = "done" /\ IsFast /\ HasInvalidValue)
        => /\ ret.kind = "tuple"
           /\ EvAt("update") = {}
           /\ EvAt("set") = {}
           /\ db = pre

C2_Witness ==
    /\ pc = "done"
    /\ IsFast
    /\ HasInvalidValue
    /\ Len(fields_to_update) >= 2
    /\ ~ Contains(StrOf(fields_to_update[1], data), Invalid)
    /\ \E k \in EvAt("validate_form") : events[k].arg = "sentinel"
    /\ ret.kind = "tuple"

\* C3: utils/updaters.py fast updater: scalar fields selected, valid values
\* submitted, nothing fails in the database: the call returns VALID and every
\* listed record reads the submitted value for every selected scalar field.
C3_ScalarApplied ==
    (/\ pc = "done"
     /\ updater = "fast_utils"
     /\ Selected \subseteq ScalarFields
     /\ ValidationPassed
     /\ ~ DbRaised)
        => /\ ret.kind = "VALID"
           /\ \A r \in Listed : \A f \in Selected : db[r][f] = data[f]

\* C4: utils/updaters.py fast updater: a relation field selected, valid values
\* submitted, nothing fails in the database: the call returns VALID and every
\* listed record's membership of every selected relation field is exactly the
\* submitted set.
C4_RelationReplaced ==
    (/\ pc = "done"
     /\ updater = "fast_utils"
     /\ Selected \cap M2MFields # {}
     /\ ValidationPassed
     /\ ~ DbRaised)
        => /\ ret.kind = "VALID"
           /\ \A r \in Listed : \A f \in Selected \cap M2MFields : db[r][f] = data[f]

\* C5: fast updater: an exception while chunk j is applied undoes chunks
\* 1..j-1 as well: the call returns an error tuple and every record equals its
\* state before the call.
C5_ChunkFailureRollsBackAll ==
    (pc = "done" /\ IsFast /\ ChunkRaised)
        => (ret.kind = "tuple" /\ db = pre)

C5_Witness ==
    /\ pc = "done"
    /\ updater = "fast_helpers"
    /\ \E k \in EvAt("raise") : events[k].arg = "DatabaseError" /\ events[k].rec > 0
    /\ DOMAIN scalar_data # {}
    /\ \E f \in DOMAIN scalar_data : data[f] # << "o" >>
    /\ EvAt("save") # {}
    /\ db = pre

CeilDiv(n, k) == (n + k - 1) \div k

\* C6: fast updater: a run that passes validation and meets no exception calls
\* the set-based update exactly ceil(N/K) times, once per chunk.
C6_UpdatesPerRun ==
    (pc = "done" /\ IsFast /\ ret.kind = "VALID")
        => Cardinality(EvAt("update")) = CeilDiv(Len(object_ids), batch)

C6_Witness ==
    /\ pc = "done"
    /\ updater = "fast_helpers"
    /\ ret.kind = "VALID"
    /\ batch = 2
    /\ Len(object_ids) = 3
    /\ Cardinality(EvAt("update")) = 2

\* C7: fast updater: validate_form runs exactly once per call, on the record
\* whose id is the first of the id list, and before any update.
C7_ValidateOnceOnFirst ==
    (IsFast /\ pc \in { "fast_loop", "done" })
        => /\ Cardinality(EvAt("validate_form")) = 1
           /\ \A k \in EvAt("validate_form") : events[k].rec = object_ids[1]
           /\ \A u \in EvAt("update") : \E k \in EvAt("validate_form") : k < u

C7_Witness ==
    /\ pc = "done"
    /\ IsFast
    /\ Len(object_ids) >= 3
    /\ object_ids[1] > object_ids[2]
    /\ Cardinality(EvAt("update")) >= 2
    /\ events[1].op = "validate_form"
    /\ events[1].rec = object_ids[1]

Explicit(f) == f.unique # "absent" /\ f.editable # "absent"

\* C8: model_fields_names yields a field's name if and only if the field is
\* editable and not unique; no field marked unique is ever offered.
C8_OfferedIffEditableNonUnique ==
    (pc = "listed")
        => \A k \in 1..Len(meta) :
              Explicit(meta[k])
                => ((k \in Range(offered))
                      <=> (meta[k].editable = "True" /\ meta[k].unique = "False"))

\* C9: edit_all_values of either updater returns VALID when nothing failed and
\* otherwise a 4-tuple whose fourth element is the triggering exception.
C9_ErrorTupleShape ==
    (pc = "done")
        => IF EvAt("raise") = {}
           THEN ret.kind = "VALID"
           ELSE /\ ret.kind = "tuple"
                /\ Len(ret.val) = 4
                /\ \A k \in EvAt("raise") : ret.val[4] = events[k].arg

FormsetsOf(r) == { n \in 1..Len(formsets) : formsets[n].inst = r }

\* C10: safe updater: a record whose main form is invalid still gets one formset
\* per selected inline, bound to the original instance; the record is not saved
\* (no save_model, save_m2m, save_formset, log_change) and the call aborts with
\* every record unchanged.
C10_InvalidFormStillBuildsFormsets ==
    (updater = "safe")
        => \A k \in EvAt("is_valid") :
              events[k].arg = "bad"
                => LET r == events[k].rec
                   IN /\ { formsets[n].prefix : n \in FormsetsOf(r) }
                            = Range(Inlines) \cap Selected
                      /\ \A n \in FormsetsOf(r) : ~ formsets[n].fromForm
                      /\ \A e \in 1..Len(events) :
                            events[e].rec = r
                              => events[e].op \notin
                                    { "save_form", "save_model", "save_m2m",
                                      "save_formset", "log_change" }
                      /\ pc = "done"
                      /\ ret.kind = "tuple"
                      /\ db = pre

C10_Witness ==
    /\ pc = "done"
    /\ updater = "safe"
    /\ \E k \in EvAt("is_valid") :
          /\ events[k].arg = "bad"
          /\ Cardinality(FormsetsOf(events[k].rec)) = 2
    /\ \A n \in 1..Len(formsets) : formsets[n].valid
    /\ EvAt("save_model") # {}

\* C11: after process_change reported success, get_view for the same id list
\* and selection sets the form's initial value of every selected field to the
\* submitted value.
C11_RoundTrip ==
    (pc = "done" /\ response.kind = "view")
        => \A f \in Selected : initial[f] = data[f]

\* C12: helpers.py fast updater: with only scalar fields selected no relation
\* membership operation is attempted in any chunk, and a valid update that
\* meets no database failure succeeds.
C12_ScalarOnlyNoRelationOp ==
    (/\ pc = "done"
     /\ updater = "fast_helpers"
     /\ Selected \subseteq ScalarFields
     /\ ValidationPassed
     /\ ~ DbRaised)
        => (EvAt("set") = {} /\ ret.kind = "VALID")

\* C13: process_change answers VALID with a redirect and an error bundle with
\* the rendered value-entry view carrying the bundle's error; it never raises.
C13_ProcessChangeNeverRaises ==
    (pc = "done" /\ response.kind \in { "redirect", "raised", "error_view" })
        => IF ret.kind = "VALID"
           THEN response.kind = "redirect"
           ELSE response.kind = "error_view" /\ response.error = ret.val[3]

\* C14: storing an id list with set_session and parsing session[k] back gives
\* the same ordered list; storing an equal list again yields the same key and
\* leaves the session as it was.
C14_SessionRoundTrip ==
    /\ (pc = "parsed") => (parsed = stored)
    /\ (pc = "stored_again" /\ stored = before.stored)
          => (hash_id = before.hash_id /\ session = before.session)

C14_Witness ==
    /\ pc = "parsed"
    /\ Len(stored) = 2
    /\ stored[1] > stored[2]
    /\ stored[2] < 0
    /\ before.stored = stored
    /\ parsed = stored

RECURSIVE Flatten(_)
Flatten(ss) == IF ss = << >> THEN << >> ELSE Head(ss) \o Flatten(Tail(ss))

ChunksCoverPrefix ==
    IsFast
        => /\ \A c \in 1..Len(chunks) : Len(chunks[c]) >= 1 /\ Len(chunks[c]) <= batch
           /\ Len(Flatten(chunks)) <= Len(object_ids)
           /\ Flatten(chunks) = SubSeq(object_ids, 1, Len(Flatten(chunks)))
           /\ (pc = "done" /\ ret.kind = "VALID") => Flatten(chunks) = object_ids

\* C15: the chunk loop of the fast updater terminates, and the chunks taken are
\* consecutive slices of the id list, in list order, without overlap, covering
\* every position exactly once when the loop completes.
C15_ChunksPartitionAndTerminate ==
    /\ [] ChunksCoverPrefix
    /\ (IsFast /\ pc = "fast_loop") ~> (pc = "done")

C15_Witness ==
    /\ pc = "done"
    /\ IsFast
    /\ ret.kind = "VALID"
    /\ batch = 2
    /\ Len(chunks) = 2
    /\ Len(chunks[2]) = 1

\* C16: safe updater: in a successful run every formset built is saved exactly
\* once, while the record it was built for is processed.
C16_FormsetSavedOnce ==
    (pc = "done" /\ updater = "safe" /\ ret.kind = "VALID")
        => \A n \in 1..Len(formsets) :
              Cardinality({ e \in EvAt("save_formset") :
                              /\ events[e].rec = formsets[n].inst
                              /\ events[e].arg = formsets[n].prefix }) = 1

\* C17: after a call of either updater every field outside the selection has
\* its value of before the call on every record, and every record outside the
\* id list is unchanged.
C17_Frame ==
    (pc = "done")
        => \A r \in Ids :
              /\ (r \notin Listed) => (db[r] = pre[r])
              /\ \A f \in ModelFields \ Selected : db[r][f] = pre[r][f]
              /\ db[r].inl \ Selected = pre[r].inl \ Selected

C17_Witness ==
    /\ pc = "done"
    /\ ret.kind = "VALID"
    /\ Ids \ Listed # {}
    /\ ModelFields \ Selected # {}
    /\ \E r \in Listed : \E f \in Selected : db[r][f] # pre[r][f]
====
